---- MODULE Spec2Model ----
(***************************************************************************)
(* Model of the VGA text-mode driver of rust_os (src/vga_buffer/mod.rs)    *)
(* and of the guarded global WRITER used by _print, _clear_screen, _debug  *)
(* and the panic handler (src/main.rs).                                    *)
(***************************************************************************)
EXTENDS Integers, Sequences, FiniteSets, TLC

VARIABLES
  writer,   \* the Writer: row_position, column_position, color_code, buffer
  last,     \* the Writer method called last, its arguments and the cursor/colour before it
  nops,     \* number of Writer methods called so far
  lock,     \* the flag of the spin::Mutex around WRITER
  pc,       \* where each execution context is in _print / _clear_screen / _debug
  call,     \* the call each context is executing
  pos,      \* index of the next byte of the call's text
  saved,    \* tmp_color of the with_color each context is in
  panicking,\* the context is in the panic handler
  ncalls,   \* number of calls each context has started
  serial    \* the Writer after the completed calls run one at a time in lock order

seqvars == << writer, last, nops >>
concvars == << lock, pc, call, pos, saved, panicking, ncalls, serial >>
vars == << writer, last, nops, lock, pc, call, pos, saved, panicking, ncalls, serial >>

\* ------------------------------------------------------------------------
\* Program constants
\* ------------------------------------------------------------------------
BUFFER_HEIGHT == 25
BUFFER_WIDTH == 80

Black == 0
Blue == 1
Green == 2
Cyan == 3
Red == 4
Magenta == 5
Brown == 6
Yellow == 14

NEWLINE == 10
SPACE == 32
TILDE == 126
PLACEHOLDER == 254

\* ------------------------------------------------------------------------
\* Bounds of the exploration
\* ------------------------------------------------------------------------
MaxOps == 2
MaxCalls == 1

Rows == 0 .. (BUFFER_HEIGHT - 1)
Cols == 0 .. (BUFFER_WIDTH - 1)

\* ------------------------------------------------------------------------
\* ColorCode::new : (background as u8) << 4 | (foreground as u8)
\* ------------------------------------------------------------------------
RECURSIVE BitOr(_, _)
BitOr(a, b) ==
  IF a = 0 /\ b = 0 THEN 0
  ELSE (IF (a % 2 = 1) \/ (b % 2 = 1) THEN 1 ELSE 0) + 2 * BitOr(a \div 2, b \div 2)

\* ColorCode::new that shifts the background by 3 bits
ColorCode_new_shl3(foreground, background) ==
  BitOr((background * 8) % 256, foreground)

ColorCode_new(foreground, background) ==
  BitOr((background * 16) % 256, foreground)

ScreenChar(byte, color) == [ascii_character |-> byte, color_code |-> color]

\* ------------------------------------------------------------------------
\* Writer: pure functions on a Writer value w.  w.fault records that an
\* index outside chars[BUFFER_HEIGHT][BUFFER_WIDTH] was used (the Rust
\* bounds check panics); a faulted Writer executes nothing further.
\* ------------------------------------------------------------------------
\* Let(e, F) is F(e) with e evaluated once, before F uses it
Let(e, F(_)) == CHOOSE r \in { F(x) : x \in { e } } : TRUE

chars_write(w, row, col, ch) ==
  IF row \in Rows /\ col \in Cols
    THEN [w EXCEPT !.buffer[row][col] = ch]
    ELSE [w EXCEPT !.fault = TRUE]

\* The loops of the source run their bodies in index order.  A loop over
\* lo..hi-1 is evaluated as the loop over lo..m-1 followed by the loop over
\* m..hi-1, which runs the same bodies in the same order and keeps the
\* evaluation shallow.

\* for col in lo..hi { chars[row][col].write(blank) }
\* The cells of one row are written independently of each other, so the
\* column loop is one assignment to the row; an index outside the array faults.
clear_cols(w, row, lo, hi, blank) ==
  IF row \in Rows /\ (lo .. (hi - 1)) \subseteq Cols
    THEN [w EXCEPT !.buffer[row] =
            [c \in Cols |-> IF c \in lo .. (hi - 1) THEN blank ELSE @[c]]]
    ELSE [w EXCEPT !.fault = TRUE]

\* clear_row that also moves the cursor to the start of the line
clear_row_home(w, row) ==
  IF w.fault THEN w
  ELSE Let(clear_cols(w, row, 0, BUFFER_WIDTH, ScreenChar(SPACE, w.color_code)),
           LAMBDA w1 : IF w1.fault THEN w1 ELSE [w1 EXCEPT !.column_position = 0])

clear_row(w, row) ==
  IF w.fault THEN w
  ELSE clear_cols(w, row, 0, BUFFER_WIDTH, ScreenChar(SPACE, w.color_code))

\* for col in lo..hi {
\*   let character = chars[row][col].read(); chars[row - 1][col].write(character) }
copy_cols(w, row, lo, hi) ==
  IF row \in Rows /\ (row - 1) \in Rows /\ (lo .. (hi - 1)) \subseteq Cols
    THEN [w EXCEPT !.buffer[row - 1] =
            [c \in Cols |-> IF c \in lo .. (hi - 1) THEN w.buffer[row][c] ELSE @[c]]]
    ELSE [w EXCEPT !.fault = TRUE]

\* for row in lo..hi { for col in 0..BUFFER_WIDTH { ... } }
RECURSIVE copy_rows(_, _, _)
copy_rows(w, lo, hi) ==
  IF lo >= hi THEN w
  ELSE IF hi = lo + 1 THEN copy_cols(w, lo, 0, BUFFER_WIDTH)
  ELSE LET m == (lo + hi) \div 2
       IN Let(copy_rows(w, lo, m), LAMBDA w1 : IF w1.fault THEN w1 ELSE copy_rows(w1, m, hi))

\* new_line that also blanks the row it moves to
new_line_clear_next(w) ==
  IF w.fault THEN w
  ELSE IF w.row_position = BUFFER_HEIGHT - 1
    THEN Let(copy_rows(w, 1, BUFFER_HEIGHT), LAMBDA w1 :
           IF w1.fault THEN w1
           ELSE Let(clear_row(w1, BUFFER_HEIGHT - 1), LAMBDA w2 :
                  IF w2.fault THEN w2 ELSE [w2 EXCEPT !.column_position = 0]))
    ELSE Let(clear_row(w, w.row_position + 1), LAMBDA w1 :
           IF w1.fault THEN w1
           ELSE [w1 EXCEPT !.row_position = @ + 1, !.column_position = 0])

\* new_line that scrolls without clearing the last row
new_line_no_clear(w) ==
  IF w.fault THEN w
  ELSE IF w.row_position = BUFFER_HEIGHT - 1
    THEN Let(copy_rows(w, 1, BUFFER_HEIGHT), LAMBDA w1 :
           IF w1.fault THEN w1 ELSE [w1 EXCEPT !.column_position = 0])
    ELSE [w EXCEPT !.row_position = @ + 1, !.column_position = 0]

\* new_line that advances the row but leaves the column where it is
new_line_keep_col(w) ==
  IF w.fault THEN w
  ELSE IF w.row_position = BUFFER_HEIGHT - 1
    THEN Let(copy_rows(w, 1, BUFFER_HEIGHT), LAMBDA w1 :
           IF w1.fault THEN w1 ELSE clear_row(w1, BUFFER_HEIGHT - 1))
    ELSE [w EXCEPT !.row_position = @ + 1]

new_line(w) ==
  IF w.fault THEN w
  ELSE IF w.row_position = BUFFER_HEIGHT - 1
    THEN Let(copy_rows(w, 1, BUFFER_HEIGHT), LAMBDA w1 :
           IF w1.fault THEN w1
           ELSE Let(clear_row(w1, BUFFER_HEIGHT - 1), LAMBDA w2 :
                  IF w2.fault THEN w2 ELSE [w2 EXCEPT !.column_position = 0]))
    ELSE [w EXCEPT !.row_position = @ + 1, !.column_position = 0]

\* write_byte that advances the line as soon as the row is full
write_byte_eager(w, byte) ==
  IF w.fault THEN w
  ELSE IF byte = NEWLINE THEN new_line(w)
  ELSE Let(chars_write(w, w.row_position, w.column_position,
                       ScreenChar(byte, w.color_code)), LAMBDA w1 :
         IF w1.fault THEN w1
         ELSE Let([w1 EXCEPT !.column_position = @ + 1], LAMBDA w2 :
                IF w2.column_position >= BUFFER_WIDTH THEN new_line(w2) ELSE w2))

\* write_byte whose wrap check is column_position > BUFFER_WIDTH
write_byte_gt(w, byte) ==
  IF w.fault THEN w
  ELSE IF byte = NEWLINE THEN new_line(w)
  ELSE Let(IF w.column_position > BUFFER_WIDTH THEN new_line(w) ELSE w, LAMBDA w1 :
         IF w1.fault THEN w1
         ELSE Let(chars_write(w1, w1.row_position, w1.column_position,
                              ScreenChar(byte, w1.color_code)), LAMBDA w2 :
                IF w2.fault THEN w2 ELSE [w2 EXCEPT !.column_position = @ + 1]))

\* write_byte that advances the column before it writes the cell
write_byte_incr_first(w, byte) ==
  IF w.fault THEN w
  ELSE IF byte = NEWLINE THEN new_line(w)
  ELSE Let(IF w.column_position >= BUFFER_WIDTH THEN new_line(w) ELSE w, LAMBDA w1 :
         IF w1.fault THEN w1
         ELSE Let([w1 EXCEPT !.column_position = @ + 1], LAMBDA w2 :
                chars_write(w2, w2.row_position, w2.column_position,
                            ScreenChar(byte, w2.color_code))))

write_byte(w, byte) ==
  IF w.fault THEN w
  ELSE IF byte = NEWLINE THEN new_line(w)
  ELSE Let(IF w.column_position >= BUFFER_WIDTH THEN new_line(w) ELSE w, LAMBDA w1 :
         IF w1.fault THEN w1
         ELSE Let(chars_write(w1, w1.row_position, w1.column_position,
                              ScreenChar(byte, w1.color_code)), LAMBDA w2 :
                IF w2.fault THEN w2 ELSE [w2 EXCEPT !.column_position = @ + 1]))

\* glyph_of that lets every byte but the non-ASCII ones through
glyph_of_ascii(byte) ==
  IF byte < 128 THEN byte ELSE PLACEHOLDER

\* glyph_of whose printable range ends at 0x7f
glyph_of_7f(byte) ==
  IF (byte >= SPACE /\ byte <= TILDE + 1) \/ byte = NEWLINE THEN byte ELSE PLACEHOLDER

\* the byte that write_string hands to write_byte
glyph_of(byte) ==
  IF (byte >= SPACE /\ byte <= TILDE) \/ byte = NEWLINE THEN byte ELSE PLACEHOLDER

\* for byte in s.bytes() { write_byte(glyph_of(byte)) }, over the bytes s[lo..hi-1]
RECURSIVE write_bytes(_, _, _, _)
write_bytes(w, s, lo, hi) ==
  IF lo >= hi THEN w
  ELSE IF hi = lo + 1 THEN write_byte(w, glyph_of(s[lo]))
  ELSE LET m == (lo + hi) \div 2
       IN Let(write_bytes(w, s, lo, m), LAMBDA w1 : IF w1.fault THEN w1 ELSE write_bytes(w1, s, m, hi))

write_string(w, s) == write_bytes(w, s, 1, Len(s) + 1)

\* for row in lo..hi { clear_row(row) }
RECURSIVE clear_rows(_, _, _)
clear_rows(w, lo, hi) ==
  IF lo >= hi THEN w
  ELSE IF hi = lo + 1 THEN clear_row(w, lo)
  ELSE LET m == (lo + hi) \div 2
       IN Let(clear_rows(w, lo, m), LAMBDA w1 : IF w1.fault THEN w1 ELSE clear_rows(w1, m, hi))

\* clear_screen whose row loop starts at row 1
clear_screen_from_1(w) ==
  Let(clear_rows(w, 1, BUFFER_HEIGHT), LAMBDA w1 :
    IF w1.fault THEN w1
    ELSE [w1 EXCEPT !.row_position = 0, !.column_position = 0])

clear_screen(w) ==
  Let(clear_rows(w, 0, BUFFER_HEIGHT), LAMBDA w1 :
    IF w1.fault THEN w1
    ELSE [w1 EXCEPT !.row_position = 0, !.column_position = 0])

\* with_color(color, f): f is a closure over the Writer; f.kind names what it calls
RECURSIVE with_color(_, _, _)
call_closure(w, f) ==
  CASE f.kind = "write_byte" -> write_byte(w, f.byte)
    [] f.kind = "write_string" -> write_string(w, f.s)
    [] f.kind = "clear_screen" -> clear_screen(w)
    [] f.kind = "with_color" -> with_color(w, f.color, [f EXCEPT !.kind = "write_string"])

\* with_color that does not put the previous colour back
with_color_no_restore(w, color, f) ==
  IF w.fault THEN w
  ELSE call_closure([w EXCEPT !.color_code = color], f)

with_color(w, color, f) ==
  IF w.fault THEN w
  ELSE Let(w.color_code, LAMBDA tmp_color :
         Let(call_closure([w EXCEPT !.color_code = color], f), LAMBDA w1 :
           IF w1.fault THEN w1 ELSE [w1 EXCEPT !.color_code = tmp_color]))

\* ------------------------------------------------------------------------
\* Construction
\* ------------------------------------------------------------------------
\* the memory at 0xb8000 holds whatever the firmware left there
HwBuffer ==
  [r \in Rows |-> [c \in Cols |->
     ScreenChar(48 + ((r + c) % 10), (r * 16 + c) % 256)]]

empty_char == ScreenChar(SPACE, ColorCode_new(Green, Brown))

construct_buffer == [r \in Rows |-> [c \in Cols |-> empty_char]]

construct_writer ==
  [row_position |-> 0, column_position |-> 0,
   color_code |-> ColorCode_new(Blue, Magenta),
   buffer |-> construct_buffer, fault |-> FALSE]

WRITER ==
  [row_position |-> 0, column_position |-> 0,
   color_code |-> ColorCode_new(Yellow, Black),
   buffer |-> HwBuffer, fault |-> FALSE]

\* ------------------------------------------------------------------------
\* Inputs
\* ------------------------------------------------------------------------
Rep(b, n) == [i \in 1 .. n |-> b]

FullLine == Rep(65, BUFFER_WIDTH)
FullLinePlus == FullLine \o << 66 >>
ToLastRow == Rep(NEWLINE, BUFFER_HEIGHT - 1)

\* what was written to the Writer before the calls that are explored
SetupInputs == { << >>, << 97, NEWLINE, 98, 99 >>, FullLine, ToLastRow,
                 ToLastRow \o FullLine }

ByteInputs == { NEWLINE, SPACE, TILDE, 1 }
\* byte sequences of valid UTF-8 strings
\* writeln!("a"); writeln!("b{}", "c")
TwoLines == << 97, NEWLINE, 98, 99, NEWLINE >>

StrInputs == { << 97, NEWLINE >>, << 1 >>, << 127, 195, 169 >>, FullLinePlus,
               TwoLines, FullLine }
RowInputs == { 0, BUFFER_HEIGHT - 1 }
ColorInputs == { ColorCode_new(Red, Cyan) }

Closure(kind, byte, s, color) == [kind |-> kind, byte |-> byte, s |-> s, color |-> color]
ClosureInputs ==
  { Closure("write_byte", 88, << >>, 0),
    Closure("write_string", 0, FullLinePlus, 0),
    Closure("clear_screen", 0, << >>, 0),
    Closure("with_color", 0, << 90, NEWLINE >>, ColorCode_new(Cyan, Black)) }

NoClosure == Closure("none", 0, << >>, 0)

Called(name, byte, s, row, color, f) ==
  [name |-> name, byte |-> byte, s |-> s, row |-> row, color |-> color, f |-> f,
   row0 |-> writer.row_position, col0 |-> writer.column_position,
   color0 |-> writer.color_code]

\* ------------------------------------------------------------------------
\* The guarded global WRITER: execution contexts calling _print,
\* _clear_screen and _debug, and the panic handler
\* ------------------------------------------------------------------------
Ctx == { "main", "irq" }

\* _debug that uses Red for both levels
debug_color_red(level) == ColorCode_new(Red, Black)

\* _debug's match on the level
debug_color(level) ==
  IF level = "Core" THEN ColorCode_new(Red, Black) ELSE ColorCode_new(Cyan, Black)

\* a call: the function, the level (for _debug), the bytes its arguments
\* render to, and whether an argument's fmt returns Err after those bytes
Call(fn, level, bytes, fails) ==
  [fn |-> fn, level |-> level, bytes |-> bytes, fails |-> fails]

NoCall == Call("none", "Core", << >>, FALSE)

CallInputs ==
  { Call("_print", "Core", << 80, NEWLINE >>, FALSE),
    Call("_print", "Core", << 97 >>, TRUE),
    Call("_clear_screen", "Core", << >>, FALSE),
    Call("_debug", "Core", << 99, NEWLINE >>, FALSE),
    Call("_debug", "Process", << 112, NEWLINE >>, FALSE),
    Call("_debug", "Core", << 120 >>, TRUE),
    Call("_print", "Core", << 9, 195, 169 >>, FALSE) }

\* println!("{}", info) of the panic handler
PanicPrint == Call("_print", "Core", << 33, NEWLINE >>, FALSE)

BootInputs == { << >>, ToLastRow \o FullLine }

\* the whole call run on a Writer nobody else uses
run_call(w, c) ==
  CASE c.fn = "_print" -> write_string(w, c.bytes)
    [] c.fn = "_clear_screen" -> clear_screen(w)
    [] c.fn = "_debug" ->
         with_color(w, debug_color(c.level), Closure("write_string", 0, c.bytes, 0))

ConcIdle ==
  /\ lock = FALSE
  /\ pc = [c \in Ctx |-> "idle"]
  /\ call = [c \in Ctx |-> NoCall]
  /\ pos = [c \in Ctx |-> 1]
  /\ saved = [c \in Ctx |-> 0]
  /\ panicking = [c \in Ctx |-> FALSE]
  /\ ncalls = [c \in Ctx |-> 0]
  /\ serial = writer

ConcInit ==
  /\ \E s \in BootInputs : writer = write_string(WRITER, s)
  /\ last = [name |-> "new", byte |-> 0, s |-> << >>, row |-> 0, color |-> 0,
             f |-> NoClosure, row0 |-> 0, col0 |-> 0, color0 |-> 0]
  /\ nops = 0
  /\ ConcIdle

\* a context enters _print, _clear_screen or _debug
StartCall(c) ==
  \E k \in CallInputs :
    /\ pc[c] = "idle"
    /\ ncalls[c] < MaxCalls
    /\ call' = [call EXCEPT ![c] = k]
    /\ ncalls' = [ncalls EXCEPT ![c] = @ + 1]
    /\ pos' = [pos EXCEPT ![c] = 1]
    /\ pc' = [pc EXCEPT ![c] = "lock"]
    /\ UNCHANGED << writer, lock, saved, panicking, serial, seqvars >>

\* WRITER.lock() that lets the panic handler of the lock's holder in again
Lock_reentrant(c) ==
  /\ pc[c] = "lock"
  /\ lock = FALSE \/ panicking[c]
  /\ lock' = TRUE
  /\ pc' = [pc EXCEPT ![c] = IF call[c].fn = "_debug" THEN "with_color" ELSE "body"]
  /\ serial' = IF call[c].fails THEN serial ELSE run_call(serial, call[c])
  /\ UNCHANGED << writer, last, nops, call, pos, saved, panicking, ncalls >>

\* WRITER.lock() that takes the lock whether or not it is free
Lock_no_wait(c) ==
  /\ pc[c] = "lock"
  /\ lock' = TRUE
  /\ pc' = [pc EXCEPT ![c] = IF call[c].fn = "_debug" THEN "with_color" ELSE "body"]
  /\ serial' = IF call[c].fails THEN serial ELSE run_call(serial, call[c])
  /\ UNCHANGED << writer, last, nops, call, pos, saved, panicking, ncalls >>

\* WRITER.lock(): spins until the flag is clear, then sets it
Lock(c) ==
  /\ pc[c] = "lock"
  /\ lock = FALSE
  /\ lock' = TRUE
  /\ pc' = [pc EXCEPT ![c] = IF call[c].fn = "_debug" THEN "with_color" ELSE "body"]
  /\ serial' = IF call[c].fails THEN serial ELSE run_call(serial, call[c])
  /\ UNCHANGED << writer, last, nops, call, pos, saved, panicking, ncalls >>

\* with_color: let tmp_color = self.color_code; self.color_code = color
WithColorEnter(c) ==
  /\ pc[c] = "with_color"
  /\ saved' = [saved EXCEPT ![c] = writer.color_code]
  /\ writer' = [writer EXCEPT !.color_code = debug_color(call[c].level)]
  /\ pc' = [pc EXCEPT ![c] = "body"]
  /\ UNCHANGED << last, nops, lock, call, pos, panicking, ncalls, serial >>

\* write_fmt hands the next byte of the rendered text to write_string
WriteFmtByte(c) ==
  /\ pc[c] = "body"
  /\ call[c].fn \in { "_print", "_debug" }
  /\ pos[c] <= Len(call[c].bytes)
  /\ writer' = write_byte(writer, glyph_of(call[c].bytes[pos[c]]))
  /\ pos' = [pos EXCEPT ![c] = @ + 1]
  /\ pc' = [pc EXCEPT ![c] =
              IF pos[c] < Len(call[c].bytes) \/ call[c].fails THEN "body"
              ELSE IF call[c].fn = "_debug" THEN "restore" ELSE "unlock"]
  /\ UNCHANGED << last, nops, lock, call, saved, panicking, ncalls, serial >>

\* an argument's fmt returns Err: write_fmt returns Err and unwrap panics
FmtError(c) ==
  /\ pc[c] = "body"
  /\ call[c].fails
  /\ pos[c] > Len(call[c].bytes)
  /\ pc' = [pc EXCEPT ![c] = "panic"]
  /\ UNCHANGED << writer, last, nops, lock, call, pos, saved, panicking, ncalls, serial >>

\* _clear_screen: WRITER.lock().clear_screen()
ClearScreenCall(c) ==
  /\ pc[c] = "body"
  /\ call[c].fn = "_clear_screen"
  /\ writer' = clear_screen(writer)
  /\ pc' = [pc EXCEPT ![c] = "unlock"]
  /\ UNCHANGED << last, nops, lock, call, pos, saved, panicking, ncalls, serial >>

\* with_color: self.color_code = tmp_color
WithColorExit(c) ==
  /\ pc[c] = "restore"
  /\ writer' = [writer EXCEPT !.color_code = saved[c]]
  /\ pc' = [pc EXCEPT ![c] = "unlock"]
  /\ UNCHANGED << last, nops, lock, call, pos, saved, panicking, ncalls, serial >>

\* the MutexGuard is dropped at the end of the statement; the panic handler
\* goes on to loop {}
Unlock(c) ==
  /\ pc[c] = "unlock"
  /\ lock' = FALSE
  /\ pc' = [pc EXCEPT ![c] = IF panicking[c] THEN "halt" ELSE "idle"]
  /\ UNCHANGED << writer, last, nops, call, pos, saved, panicking, ncalls, serial >>

\* fn panic(info): println!("{}", info), in the context that panicked; the
\* guard of the statement that panicked has not been dropped
PanicHandler(c) ==
  /\ pc[c] = "panic"
  /\ panicking' = [panicking EXCEPT ![c] = TRUE]
  /\ call' = [call EXCEPT ![c] = PanicPrint]
  /\ pos' = [pos EXCEPT ![c] = 1]
  /\ pc' = [pc EXCEPT ![c] = "lock"]
  /\ UNCHANGED << writer, last, nops, lock, saved, ncalls, serial >>

\* the steps of a call that has started
Step(c) ==
  \/ Lock(c)
  \/ WithColorEnter(c)
  \/ WriteFmtByte(c)
  \/ FmtError(c)
  \/ ClearScreenCall(c)
  \/ WithColorExit(c)
  \/ Unlock(c)
  \/ PanicHandler(c)

ConcNext == \E c \in Ctx : StartCall(c) \/ Step(c)

ConcSpec == ConcInit /\ [][ConcNext]_vars

\* every context that can take a step of its call eventually takes one
FairConcSpec == ConcSpec /\ \A c \in Ctx : WF_vars(Step(c))

\* ------------------------------------------------------------------------
\* The Writer's methods called one after another on one Writer
\* ------------------------------------------------------------------------
Init ==
  /\ \/ \E s \in SetupInputs : writer = write_string(WRITER, s)
     \/ writer = construct_writer
  /\ last = [name |-> "new", byte |-> 0, s |-> << >>, row |-> 0, color |-> 0,
             f |-> NoClosure, row0 |-> 0, col0 |-> 0, color0 |-> 0]
  /\ nops = 0
  /\ ConcIdle

CanCall == nops < MaxOps /\ ~writer.fault

WriteByte ==
  \E b \in ByteInputs :
    /\ CanCall
    /\ writer' = write_byte(writer, b)
    /\ last' = Called("write_byte", b, << >>, 0, 0, NoClosure)
    /\ nops' = nops + 1
  /\ UNCHANGED concvars
    /\ UNCHANGED concvars

WriteString ==
  \E s \in StrInputs :
    /\ CanCall
    /\ writer' = write_string(writer, s)
    /\ last' = Called("write_string", 0, s, 0, 0, NoClosure)
    /\ nops' = nops + 1
  /\ UNCHANGED concvars
    /\ UNCHANGED concvars

NewLine ==
  /\ CanCall
  /\ writer' = new_line(writer)
  /\ last' = Called("new_line", 0, << >>, 0, 0, NoClosure)
  /\ nops' = nops + 1
  /\ UNCHANGED concvars

ClearRow ==
  \E r \in RowInputs :
    /\ CanCall
    /\ writer' = clear_row(writer, r)
    /\ last' = Called("clear_row", 0, << >>, r, 0, NoClosure)
    /\ nops' = nops + 1
  /\ UNCHANGED concvars
    /\ UNCHANGED concvars

ClearScreen ==
  /\ CanCall
  /\ writer' = clear_screen(writer)
  /\ last' = Called("clear_screen", 0, << >>, 0, 0, NoClosure)
  /\ nops' = nops + 1
  /\ UNCHANGED concvars

WithColor ==
  \E c \in ColorInputs, f \in ClosureInputs :
    /\ CanCall
    /\ writer' = with_color(writer, c, f)
    /\ last' = Called("with_color", 0, << >>, 0, c, f)
    /\ nops' = nops + 1
  /\ UNCHANGED concvars
    /\ UNCHANGED concvars

Next ==
  \/ WriteByte
  \/ WriteString
  \/ NewLine
  \/ ClearRow
  \/ ClearScreen
  \/ WithColor

Spec == Init /\ [][Next]_vars

\* ------------------------------------------------------------------------
\* ColorCode::new applied once, to every pair of colours, on each initial
\* Writer: the result is the colour of with_color around clear_screen
\* ------------------------------------------------------------------------
Colors == 0 .. 15

NewColor ==
  \E fg \in Colors, bg \in Colors :
    /\ nops = 0
    /\ writer' = with_color(writer, ColorCode_new(fg, bg),
                            Closure("clear_screen", 0, << >>, 0))
    /\ last' = Called("with_color", 0, << fg, bg >>, 0, ColorCode_new(fg, bg),
                      Closure("clear_screen", 0, << >>, 0))
    /\ nops' = nops + 1
    /\ UNCHANGED concvars

ColorNext == NewColor

ColorSpec == Init /\ [][ColorNext]_vars

\* ------------------------------------------------------------------------
\* Properties of the Writer
\* ------------------------------------------------------------------------
Blank(color) == ScreenChar(SPACE, color)
LastRow == BUFFER_HEIGHT - 1
NextRow(r) == IF r = LastRow THEN LastRow ELSE r + 1
Printable == SPACE .. TILDE

\* C1: after any sequence of Writer calls the cursor satisfies
\* row_position < BUFFER_HEIGHT and column_position <= BUFFER_WIDTH, and no
\* call has used a row or column index outside the grid.
C1_CursorInBounds ==
  /\ ~writer.fault
  /\ writer.row_position < BUFFER_HEIGHT
  /\ writer.column_position <= BUFFER_WIDTH

\* a glyph was written with the cursor at (last row, BUFFER_WIDTH)
C1_Witness ==
  /\ last.name = "write_byte" /\ last.byte # NEWLINE
  /\ last.row0 = LastRow /\ last.col0 = BUFFER_WIDTH
  /\ writer.column_position = 1

\* C2: write_byte of a printable byte with column_position < BUFFER_WIDTH
\* stores {byte, active colour} at the cursor position it found, advances
\* the column by exactly 1 and leaves the row alone.
C2_WriteBytePrintable ==
  (last.name = "write_byte" /\ last.byte \in Printable /\ last.col0 < BUFFER_WIDTH)
    => /\ ~writer.fault
       /\ writer.buffer[last.row0][last.col0] = ScreenChar(last.byte, last.color0)
       /\ writer.color_code = last.color0
       /\ writer.column_position = last.col0 + 1
       /\ writer.row_position = last.row0

C2_Witness ==
  /\ last.name = "write_byte" /\ last.byte = TILDE
  /\ last.row0 = 1 /\ last.col0 = 2
  /\ writer.buffer[1][2].ascii_character = TILDE
  /\ writer.column_position = 3

\* the effect of exactly one line advance from row r0 on the rows other than
\* the one the cursor ends on
OneAdvance(r0) ==
  IF r0 = LastRow
    THEN \A r \in 0 .. (LastRow - 1) : writer'.buffer[r] = writer.buffer[r + 1]
    ELSE \A r \in Rows \ { r0 + 1 } : writer'.buffer[r] = writer.buffer[r]

C3_ByteAtWidth ==
  (last'.name = "write_byte" /\ last'.byte # NEWLINE
      /\ writer.column_position = BUFFER_WIDTH)
    => LET r0 == writer.row_position
           r1 == NextRow(r0)
       IN /\ ~writer'.fault
          /\ writer'.row_position = r1
          /\ writer'.column_position = 1
          /\ writer'.buffer[r1][0] = ScreenChar(last'.byte, writer.color_code)
          /\ OneAdvance(r0)
          /\ \A c \in 1 .. (BUFFER_WIDTH - 1) :
               writer'.buffer[r1][c] =
                 IF r0 = LastRow THEN Blank(writer.color_code) ELSE writer.buffer[r1][c]

C3_FullLinePlusOne ==
  (last'.name = "write_string" /\ last'.s = FullLinePlus
      /\ writer.column_position = 0)
    => LET r0 == writer.row_position
           r1 == NextRow(r0)
           color == writer.color_code
       IN /\ ~writer'.fault
          /\ writer'.row_position = r1
          /\ writer'.column_position = 1
          /\ writer'.buffer[r1][0] = ScreenChar(66, color)
          /\ \A c \in Cols : writer'.buffer[r1 - 1][c] = ScreenChar(65, color)
          /\ IF r0 = LastRow
               THEN \A r \in 0 .. (LastRow - 2) : writer'.buffer[r] = writer.buffer[r + 1]
               ELSE \A r \in Rows \ { r0, r1 } : writer'.buffer[r] = writer.buffer[r]
          /\ \A c \in 1 .. (BUFFER_WIDTH - 1) :
               writer'.buffer[r1][c] =
                 IF r0 = LastRow THEN Blank(color) ELSE writer.buffer[r1][c]

\* C3: BUFFER_WIDTH glyphs written from column 0 fill the row without a line
\* advance; one more glyph advances exactly one line (one scroll on the last
\* row) and lands at column 0 of that line, leaving the cursor at column 1.
C3_ExactlyOneWrap == [][C3_ByteAtWidth /\ C3_FullLinePlusOne]_vars

C3_Witness ==
  /\ last.name = "write_string" /\ last.s = FullLinePlus
  /\ last.row0 = LastRow /\ last.col0 = 0
  /\ writer.row_position = LastRow /\ writer.column_position = 1

C4_NewlineOnLastRow ==
  /\ writer.row_position = LastRow
  /\ \/ last'.name = "new_line"
     \/ last'.name = "write_byte" /\ last'.byte = NEWLINE

\* C4: a newline written with the cursor on the last row moves every row
\* r+1 to row r cell for cell, fills the last row with blanks of the active
\* colour and leaves the cursor at (BUFFER_HEIGHT-1, 0).
C4_ScrollCorrect ==
  [][C4_NewlineOnLastRow =>
       /\ ~writer'.fault
       /\ \A r \in 0 .. (LastRow - 1) : writer'.buffer[r] = writer.buffer[r + 1]
       /\ \A c \in Cols : writer'.buffer[LastRow][c] = Blank(writer.color_code)
       /\ writer'.row_position = LastRow
       /\ writer'.column_position = 0
       /\ writer'.color_code = writer.color_code]_vars

\* a scroll of a grid with text on its last row
C4_Witness ==
  /\ last.name = "write_byte" /\ last.byte = NEWLINE
  /\ last.row0 = LastRow /\ last.col0 = BUFFER_WIDTH
  /\ writer.row_position = LastRow /\ writer.column_position = 0
  /\ writer.buffer[LastRow - 1][0].ascii_character = 65
  /\ writer.buffer[0] # writer.buffer[1]

AllBlank(color) ==
  \A r \in Rows : \A c \in Cols : writer.buffer[r][c] = Blank(color)

\* C5: clear_screen leaves every cell blank in the colour that was active
\* when it ran, the cursor at (0,0) and the active colour as it found it.
C5_ClearScreen ==
  /\ last.name = "clear_screen"
       => /\ ~writer.fault
          /\ AllBlank(last.color0)
          /\ writer.row_position = 0 /\ writer.column_position = 0
          /\ writer.color_code = last.color0
  /\ (last.name = "with_color" /\ last.f.kind = "clear_screen")
       => /\ ~writer.fault
          /\ AllBlank(last.color)
          /\ writer.row_position = 0 /\ writer.column_position = 0
          /\ writer.color_code = last.color0

C5_Witness ==
  /\ last.name = "clear_screen"
  /\ last.row0 = LastRow /\ last.col0 = BUFFER_WIDTH
  /\ writer.row_position = 0 /\ writer.column_position = 0

\* the colour the closure of the with_color call c writes in
ScopedColor(c) == IF c.f.kind = "with_color" THEN c.f.color ELSE c.color

\* every cell is in the scoped colour or is a cell that was there before,
\* moved up by the k scrolls of the call
ColoredOrMoved(color, k) ==
  \A r \in Rows : \A c \in Cols :
    \/ writer'.buffer[r][c].color_code = color
    \/ (r + k) \in Rows /\ writer'.buffer[r][c] = writer.buffer[r + k][c]

C6_During ==
  last'.name = "with_color"
    => /\ ~writer'.fault
       /\ writer'.color_code = writer.color_code
       /\ \E k \in 0 .. 2 : ColoredOrMoved(ScopedColor(last'), k)
       /\ (last'.f.kind = "write_byte" /\ writer.column_position < BUFFER_WIDTH)
            => writer'.buffer[writer.row_position][writer.column_position]
                 = ScreenChar(last'.f.byte, last'.color)
       /\ last'.f.kind = "write_string"
            => /\ writer'.buffer[writer'.row_position][writer'.column_position - 1]
                    = ScreenChar(66, last'.color)
               /\ \A c \in writer'.column_position .. (BUFFER_WIDTH - 1) :
                    writer.row_position = LastRow
                      => writer'.buffer[LastRow][c] = Blank(last'.color)
       /\ last'.f.kind = "with_color"
            => writer'.buffer[writer'.row_position - 1][
                 IF writer.column_position = BUFFER_WIDTH THEN 0 ELSE writer.column_position]
                 = ScreenChar(90, last'.f.color)

C6_After ==
  (last.name = "with_color" /\ last'.name = "write_byte" /\ last'.byte # NEWLINE)
    => writer'.buffer[writer'.row_position][writer'.column_position - 1]
         = ScreenChar(last'.byte, last.color0)

\* C6: with_color(c, body) returns with the active colour it was called
\* with, whatever the body did (wrap, scroll, clear, nested with_color); the
\* cells written by the body carry c and a cell written after the return
\* carries the previous colour.
C6_WithColorScoped == [][C6_During /\ C6_After]_vars

\* a body that wrapped and scrolled, after which the colour is the old one
C6_Witness ==
  /\ last.name = "with_color" /\ last.f.kind = "write_string"
  /\ last.row0 = LastRow /\ last.col0 = BUFFER_WIDTH
  /\ writer.color_code = last.color0
  /\ writer.color_code # last.color
  /\ writer.buffer[LastRow][0] = ScreenChar(66, last.color)

\* the glyph the claim expects for a byte other than newline
ExpectedGlyph(byte) == IF byte \in Printable THEN byte ELSE PLACEHOLDER

HasNewline(s) == \E i \in 1 .. Len(s) : s[i] = NEWLINE

C7_Cells ==
  (last'.name = "write_string" /\ ~HasNewline(last'.s)
      /\ writer.column_position + Len(last'.s) <= BUFFER_WIDTH)
    => /\ ~writer'.fault
       /\ \A i \in 1 .. Len(last'.s) :
            writer'.buffer[writer.row_position][writer.column_position + i - 1]
              = ScreenChar(ExpectedGlyph(last'.s[i]), writer.color_code)
       /\ writer'.column_position = writer.column_position + Len(last'.s)
       /\ writer'.row_position = writer.row_position

C7_AsOneGlyph ==
  /\ (last'.name = "write_string" /\ last'.s = << 1 >>)
       => writer' = write_byte(writer, PLACEHOLDER)
  /\ (last'.name = "write_string" /\ last'.s = << 97, NEWLINE >>)
       => writer' = write_byte(write_byte(writer, 97), NEWLINE)

\* C7: write_string hands the bytes 0x20..0x7e and newline to write_byte as
\* they are and every other byte as 0xFE: such a byte leaves a cell holding
\* 0xFE, moves the cursor as one glyph does and raises no error.
C7_Placeholder == [][C7_Cells /\ C7_AsOneGlyph]_vars

C7_Witness ==
  /\ last.name = "write_string" /\ last.s = << 127, 195, 169 >>
  /\ last.col0 + 3 <= BUFFER_WIDTH
  /\ writer.buffer[last.row0][last.col0].ascii_character = PLACEHOLDER
  /\ writer.column_position = last.col0 + 3

\* ------------------------------------------------------------------------
\* Properties of the guarded WRITER
\* ------------------------------------------------------------------------
\* the context is between taking the lock and dropping the guard
Holding == { "with_color", "body", "restore", "unlock" }
\* the context is inside a call of _print, _clear_screen or _debug
InCall == { "lock" } \cup Holding

Holders == { c \in Ctx : pc[c] \in Holding }

\* C8: at most one context at a time is past WRITER.lock(), only while the
\* lock flag is set, and whenever the lock is free the Writer equals the
\* Writer obtained by running the calls made so far one at a time, each as
\* a whole, in the order in which they took the lock.
C8_MutualExclusion ==
  /\ Cardinality(Holders) <= 1
  /\ Holders # {} => lock
  /\ ~lock => writer = serial

\* both contexts have completed a call and the second one scrolled the screen
C8_Witness ==
  /\ \A c \in Ctx : pc[c] = "idle" /\ ncalls[c] = 1 /\ call[c].fn = "_debug"
  /\ call["main"].level # call["irq"].level
  /\ ~lock
  /\ writer.row_position = LastRow
  /\ writer = serial

\* C9: whenever no context is inside _print, _clear_screen or _debug, the
\* lock is free (every path out of a guarded call releases the lock).
C9_LockFreeWhenNoCall ==
  (\A c \in Ctx : pc[c] \notin InCall) => ~lock

\* C10: every call that has started eventually returns (to its caller, or
\* to the loop {} of the panic handler).
C10_CallCompletes ==
  \A c \in Ctx : (pc[c] = "lock") ~> (pc[c] \in { "idle", "halt" })

\* ------------------------------------------------------------------------
\* Further properties of the Writer
\* ------------------------------------------------------------------------
C11_NewlineAboveLastRow ==
  /\ writer.row_position < LastRow
  /\ \/ last'.name = "new_line"
     \/ last'.name = "write_byte" /\ last'.byte = NEWLINE

C11_Lines ==
  (last'.name = "write_string" /\ last'.s = TwoLines
      /\ writer.row_position = 0 /\ writer.column_position = 0)
    => /\ writer'.row_position = 2
       /\ writer'.column_position = 0
       /\ writer'.buffer[0][0] = ScreenChar(97, writer.color_code)
       /\ writer'.buffer[1][0] = ScreenChar(98, writer.color_code)
       /\ writer'.buffer[1][1] = ScreenChar(99, writer.color_code)
       /\ \A r \in Rows : \A c \in Cols :
            (<< r, c >> \notin { << 0, 0 >>, << 1, 0 >>, << 1, 1 >> })
              => writer'.buffer[r][c] = writer.buffer[r][c]

\* C11: a newline with the cursor above the last row adds exactly 1 to
\* row_position, sets column_position to 0 and changes no cell; two
\* newline-terminated lines written from (0,0) leave the cursor at (2,0)
\* with each line's glyphs at the start of its row.
C11_NewlineNoScroll ==
  [][/\ C11_NewlineAboveLastRow
          => /\ ~writer'.fault
             /\ writer'.row_position = writer.row_position + 1
             /\ writer'.column_position = 0
             /\ writer'.buffer = writer.buffer
             /\ writer'.color_code = writer.color_code
     /\ C11_Lines]_vars

C11_Witness ==
  /\ last.name = "write_string" /\ last.s = TwoLines
  /\ last.row0 = 0 /\ last.col0 = 0
  /\ writer.row_position = 2 /\ writer.column_position = 0
  /\ writer.buffer[1][1].ascii_character = 99

C15_FullLine ==
  (last'.name = "write_string" /\ last'.s = FullLine /\ writer.column_position = 0)
    => /\ ~writer'.fault
       /\ writer'.row_position = writer.row_position
       /\ writer'.column_position = BUFFER_WIDTH
       /\ \A c \in Cols :
            writer'.buffer[writer.row_position][c] = ScreenChar(65, writer.color_code)
       /\ \A r \in Rows \ { writer.row_position } :
            writer'.buffer[r] = writer.buffer[r]

C15_NewlineAtWidth ==
  (writer.column_position = BUFFER_WIDTH
      /\ (last'.name = "new_line" \/ (last'.name = "write_byte" /\ last'.byte = NEWLINE)))
    => /\ ~writer'.fault
       /\ writer'.row_position = NextRow(writer.row_position)
       /\ writer'.column_position = 0
       /\ IF writer.row_position = LastRow
            THEN /\ \A r \in 0 .. (LastRow - 1) : writer'.buffer[r] = writer.buffer[r + 1]
                 /\ \A c \in Cols : writer'.buffer[LastRow][c] = Blank(writer.color_code)
            ELSE writer'.buffer = writer.buffer

\* C15: BUFFER_WIDTH glyphs written from column 0 leave the cursor at
\* (row, BUFFER_WIDTH) with no line advance and no scroll, and a newline
\* written there advances exactly one line (one scroll on the last row).
C15_DeferredWrap == [][C15_FullLine /\ C15_NewlineAtWidth]_vars

\* a full line written on the last row, then a newline: one scroll, the
\* line is on the row above the cursor and the row above that is not blank
C15_Witness ==
  /\ last.name = "write_byte" /\ last.byte = NEWLINE
  /\ last.row0 = LastRow /\ last.col0 = BUFFER_WIDTH
  /\ writer.row_position = LastRow /\ writer.column_position = 0
  /\ \A c \in Cols : writer.buffer[LastRow - 1][c].ascii_character = 65
  /\ writer.buffer[LastRow - 2][0].ascii_character # SPACE

C16_WriteByteFrame ==
  (last'.name = "write_byte" /\ last'.byte # NEWLINE
      /\ writer.column_position < BUFFER_WIDTH)
    => /\ \A r \in Rows : \A c \in Cols :
            (<< r, c >> # << writer.row_position, writer.column_position >>)
              => writer'.buffer[r][c] = writer.buffer[r][c]
       /\ writer'.buffer[writer.row_position][writer.column_position]
            = ScreenChar(last'.byte, writer.color_code)
       /\ writer'.row_position = writer.row_position
       /\ writer'.color_code = writer.color_code

C16_ClearRowFrame ==
  last'.name = "clear_row"
    => /\ \A r \in Rows \ { last'.row } : writer'.buffer[r] = writer.buffer[r]
       /\ \A c \in Cols : writer'.buffer[last'.row][c] = Blank(writer.color_code)
       /\ writer'.row_position = writer.row_position
       /\ writer'.column_position = writer.column_position
       /\ writer'.color_code = writer.color_code
       /\ ~writer'.fault

\* C16: write_byte of a byte other than newline with column_position <
\* BUFFER_WIDTH changes the cell at the cursor and nothing else but the
\* column; clear_row(r) changes cells of row r only and leaves cursor and
\* colour alone.
C16_Frame == [][C16_WriteByteFrame /\ C16_ClearRowFrame]_vars

\* clear_row of the last row with the cursor in the middle of row 1
C16_Witness ==
  /\ last.name = "clear_row" /\ last.row = LastRow
  /\ last.row0 = 1 /\ last.col0 = 2
  /\ writer.row_position = 1 /\ writer.column_position = 2
  /\ writer.buffer[LastRow][0] = Blank(writer.color_code)
  /\ writer.buffer[1][0].ascii_character = 98

\* ------------------------------------------------------------------------
\* Further properties of the guarded WRITER
\* ------------------------------------------------------------------------
\* context c takes a WriteFmtByte step
WritesByte(c) == pc[c] = "body" /\ pos'[c] = pos[c] + 1

\* the byte that step hands to write_byte
StepByte(c) == glyph_of(call[c].bytes[pos[c]])

\* the step scrolls the screen
StepScrolls(c) ==
  /\ writer.row_position = LastRow
  /\ StepByte(c) = NEWLINE \/ writer.column_position = BUFFER_WIDTH

\* the cells the step at colour color must leave: the glyph at the cell
\* before the cursor, blanks from the cursor to the end of a scrolled row
StepCells(c, color) ==
  /\ StepByte(c) # NEWLINE
       => writer'.buffer[writer'.row_position][writer'.column_position - 1]
            = ScreenChar(StepByte(c), color)
  /\ StepScrolls(c)
       => \A col \in writer'.column_position .. (BUFFER_WIDTH - 1) :
            writer'.buffer[LastRow][col] = Blank(color)

RedOnBlack == 4
CyanOnBlack == 3
YellowOnBlack == 14

SeverityColor(level) == IF level = "Core" THEN RedOnBlack ELSE CyanOnBlack

C12_DebugCells ==
  \A c \in Ctx :
    (WritesByte(c) /\ call[c].fn = "_debug")
      => StepCells(c, SeverityColor(call[c].level))

C12_ColorBack ==
  \A c \in Ctx :
    (pc[c] = "unlock" /\ pc'[c] = "idle" /\ call[c].fn = "_debug")
      => writer'.color_code = YellowOnBlack

C12_PrintCells ==
  \A c \in Ctx :
    (WritesByte(c) /\ call[c].fn = "_print")
      => StepCells(c, YellowOnBlack)

\* C12: every glyph and every scroll blank of a _debug call is written in
\* the colour of its level (Core 0x04, Process 0x03); when the call returns
\* the active colour is Yellow on Black again and _print writes in it.
C12_DebugColor == [][C12_DebugCells /\ C12_ColorBack /\ C12_PrintCells]_vars

\* on a full screen a Core debug line and then a print, both scrolled up
C12_Witness ==
  /\ \A c \in Ctx : pc[c] = "idle" /\ ncalls[c] = 1
  /\ writer.buffer[LastRow - 2][0] = ScreenChar(99, RedOnBlack)
  /\ writer.buffer[LastRow - 2][1] = Blank(RedOnBlack)
  /\ writer.buffer[LastRow - 1][0] = ScreenChar(80, YellowOnBlack)
  /\ writer.color_code = YellowOnBlack

\* C13: once the body of with_color has been abandoned (unwrap panicked in
\* _debug's closure), the active colour is the colour from before the call.
C13_ColorRestoredAfterPanic ==
  \A c \in Ctx :
    (call[c].fn = "_debug" /\ pc[c] = "panic") => writer.color_code = saved[c]

\* C14: once a context is in the panic handler after a panic under the
\* lock, its println! never gets past WRITER.lock(), the lock stays set and
\* the Writer (cursor, colour, grid) never changes again.
C14_NoReentry ==
  [][\A c \in Ctx :
       /\ panicking'[c] => pc'[c] = "lock" /\ lock'
       /\ (pc[c] = "panic" \/ panicking[c]) => writer' = writer /\ lock']_vars

\* the panic handler and the other context both wait at WRITER.lock()
C14_Witness ==
  /\ panicking["main"] /\ pc["main"] = "lock"
  /\ ~panicking["irq"] /\ pc["irq"] = "lock"
  /\ lock

GlyphOK(g) == g \in Printable \/ g = PLACEHOLDER

\* C17: every cell of the grid holds a glyph in 0x20..0x7e or 0xFE.
C17_GlyphsPrintable ==
  \A r \in Rows : \A c \in Cols : GlyphOK(writer.buffer[r][c].ascii_character)

\* a tab and a two-byte character were printed and the screen scrolled
C17_Witness ==
  /\ \A c \in Ctx : pc[c] = "idle" /\ ncalls[c] = 1
  /\ writer.row_position = LastRow
  /\ \E r \in Rows : /\ r < LastRow
                     /\ \A c \in 0 .. 2 : writer.buffer[r][c].ascii_character = PLACEHOLDER
                     /\ writer.buffer[r][3].ascii_character = 99

\* ------------------------------------------------------------------------
\* Properties of ColorCode::new
\* ------------------------------------------------------------------------
\* the state follows with_color(ColorCode::new(fg, bg), clear_screen)
ColorCase == last.name = "with_color" /\ Len(last.s) = 2

\* C18: the byte built from (foreground, background) is background * 16 +
\* foreground, lies in 0..255, gives the two colours back as value mod 16
\* and value div 16, and no other pair of colours builds the same byte.
C18_ColorCodePacking ==
  ColorCase
    => LET fg == last.s[1]
           bg == last.s[2]
           value == writer.buffer[0][0].color_code
       IN /\ value = last.color
          /\ value = bg * 16 + fg
          /\ value \in 0 .. 255
          /\ value % 16 = fg
          /\ value \div 16 = bg
          /\ \A f2 \in Colors, b2 \in Colors :
               ColorCode_new(f2, b2) = value => (f2 = fg /\ b2 = bg)

\* White on White, the largest value
C18_Witness ==
  /\ ColorCase
  /\ last.s = << 15, 15 >>
  /\ writer.buffer[0][0].color_code = 255

====
